---------------------------- MODULE Spec2Model ----------------------------
(***************************************************************************)
(* Model of the quote generator page of dom-manipulation/script.js, last   *)
(* revision (lines 504-1028): the in-memory quote collection, the two      *)
(* storage areas, the category filter, and the sync cycle that merges the  *)
(* records fetched from the remote source into the collection.             *)
(*                                                                         *)
(* Strings that the code trims (quote text, category, filter values) are   *)
(* sequences of pieces: a piece is one leading or trailing blank " ", or   *)
(* the part between them, so "" is <<>> and " Life" is <<" ", "Life">>.    *)
(* Ids are never trimmed and are plain strings.                            *)
(* A JavaScript object is a function from its keys to its values; a JSON   *)
(* text of an object is the sequence of its <<key, value>> pairs.          *)
(* A storage item is <<>> (getItem returns null) or <<value>>.             *)
(***************************************************************************)
EXTENDS Integers, Sequences, FiniteSets, TLC

\* ------------------------------------------------------------- bounds
\* ticks of the setInterval timer
MaxTicks == 1
\* user gestures (add, import, clicks, filter changes, export, reload): two,
\* so that one gesture can follow another (an import after an add, a reload
\* after a filter change)
MaxUserOps == 2
\* sync cycles suspended at the same time: two, so that a tick can come
\* while the fetch of the cycle before it is unresolved
MaxInflight == 2

\* ------------------------------------------------------------ strings
Str(s) == <<s>>
Blank == " "
EmptyStr == <<>>
All == Str("all")

RECURSIVE TrimStart(_)
TrimStart(s) ==
    IF s # <<>> /\ Head(s) = Blank THEN TrimStart(Tail(s)) ELSE s

RECURSIVE TrimEnd(_)
TrimEnd(s) ==
    IF s # <<>> /\ s[Len(s)] = Blank THEN TrimEnd(SubSeq(s, 1, Len(s) - 1)) ELSE s

\* String.prototype.trim
Trim(s) == TrimEnd(TrimStart(s))

Range(s) == {s[i] : i \in 1..Len(s)}

RECURSIVE SelectIdx(_, _, _)
\* the subsequence of s at the indices of keep, in order (Array.prototype.filter)
SelectIdx(s, keep, i) ==
    IF i > Len(s) THEN <<>>
    ELSE (IF i \in keep THEN <<s[i]>> ELSE <<>>) \o SelectIdx(s, keep, i + 1)

\* --------------------------------------------------------------- JSON
\* key order of the objects the page builds (lines 518, 583-588, 754-759)
KeyOrder == <<"id", "text", "category", "synced">>

\* JSON.stringify of one object: its keys and values
StringifyObj(q) ==
    LET keep == {i \in 1..Len(KeyOrder) : KeyOrder[i] \in DOMAIN q}
        keys == SelectIdx(KeyOrder, keep, 1)
    IN  [i \in 1..Len(keys) |-> <<keys[i], q[keys[i]]>>]

\* JSON.parse of one object text
ParseObj(j) ==
    [k \in {j[i][1] : i \in 1..Len(j)} |->
        (CHOOSE p \in Range(j) : p[1] = k)[2]]

\* JSON.stringify / JSON.parse of an array of objects
Stringify(qs) == [i \in 1..Len(qs) |-> StringifyObj(qs[i])]
Parse(js) == [i \in 1..Len(js) |-> ParseObj(js[i])]

\* the JSON text `null` as an array element, and the value it parses to
NullJson == << <<"jsnull", TRUE>> >>
IsNull(q) == "jsnull" \in DOMAIN q

\* ------------------------------------------------------ program data
defaultQuotes ==
    << [id |-> "d1", text |-> Str("The only way to do great work is to love what you do."),
        category |-> Str("Work"), synced |-> TRUE],
       [id |-> "d2", text |-> Str("Life is what happens when you're busy making other plans."),
        category |-> Str("Life"), synced |-> TRUE],
       [id |-> "d3", text |-> Str("In the end, it's not the years in your life that count. It's the life in your years."),
        category |-> Str("Life"), synced |-> TRUE],
       [id |-> "d4", text |-> Str("The purpose of our lives is to be happy."),
        category |-> Str("Philosophy"), synced |-> TRUE] >>

\* generateUniqueId: Date.now() and Math.random() in base 36; `n` is the
\* number of ids generated so far, so every call gives a new id.
generateUniqueId(n) == "k" \o ToString(n)

\* content of a quote: what the claims call "the same quote"
Content(q) ==
    [k \in DOMAIN q \ {"synced"} |-> q[k]]

Ids(qs) == {qs[i].id : i \in 1..Len(qs)}

\* ------------------------------------------------------------- state
VARIABLES
    page,        \* "unloaded" before DOMContentLoaded, then "ready"
    quotes,      \* the global array `quotes`
    lsQuotes,    \* localStorage item 'quotes'
    lsFilter,    \* localStorage item 'lastFilter'
    session,     \* sessionStorage item 'lastViewedQuote'
    ui,          \* the select element `categoryFilter`
    display,     \* what quoteDisplay shows
    syncStatus,  \* text of the syncStatus element, "" before it is created
    form,        \* TRUE once createAddQuoteForm has added the add button
    timer,       \* TRUE once setInterval(syncQuotes, SYNC_INTERVAL) is set
    cycles,      \* the sync cycles suspended in fetchServerQuotes
    statusTimers,\* pending setTimeout callbacks of line 656
    idCount,     \* ids generated so far (Date.now / Math.random)
    exported,    \* the last file written by exportToJsonFile
    ticks,       \* timer ticks so far
    userOps,     \* user gestures so far
    hist         \* the last completed handler: what it read and did

vars == <<page, quotes, lsQuotes, lsFilter, session, ui, display, syncStatus,
          form, timer, cycles, statusTimers, idCount, exported, ticks,
          userOps, hist>>

\* ------------------------------------------------------- view helpers
\* The handlers below thread a view record through the display functions:
\*   ui, lf (lastFilter item), ss (session item), dp (display),
\*   threw (TRUE when the function raised a TypeError part-way).
View == [ui |-> ui, lf |-> lsFilter, ss |-> session, dp |-> display, threw |-> FALSE]

\* assigning select.value: a value that is no option leaves nothing selected
SetValue(u, v) == [u EXCEPT !.value = IF v \in u.options THEN v ELSE EmptyStr]

\* q.category.trim() raises a TypeError when the quote has no category
NoCategory(q) == "category" \notin DOMAIN q

\* displayQuote (lines 669-682)
displayQuote(q, suffix) ==
    [kind |-> "quote", quote |-> Content(q), suffix |-> suffix,
     unsynced |-> ~q.synced]

\* displayFilteredQuotes (lines 687-716)
displayFilteredQuotes(qs, filter) ==
    IF Len(qs) = 0 THEN [kind |-> "nolist", filter |-> filter]
    ELSE [kind |-> "list", items |-> qs, filter |-> filter]

\* populateCategories (lines 783-806) on collection qs
populateCategories(qs, v) ==
    IF ~v.ui.created THEN v
    ELSE IF \E i \in 1..Len(qs) : NoCategory(qs[i]) THEN [v EXCEPT !.threw = TRUE]
    ELSE LET unique == {Trim(qs[i].category) : i \in 1..Len(qs)}
             current == IF v.ui.value = EmptyStr THEN All ELSE v.ui.value
             opts == {All} \cup (unique \ {EmptyStr})
             u1 == [created |-> TRUE, options |-> opts, value |-> All]
         IN  [v EXCEPT !.ui = SetValue(u1, IF current \in unique \/ current = All
                                           THEN current ELSE All)]

\* the quotes filterQuotes keeps for a category
FilterByCategory(qs, c) ==
    SelectIdx(qs, {i \in 1..Len(qs) : Trim(qs[i].category) = c}, 1)

\* filterQuotes (lines 812-830) on collection qs
filterQuotes(qs, v) ==
    IF ~v.ui.created THEN v
    ELSE LET selected == v.ui.value
             v1 == [v EXCEPT !.lf = <<selected>>]
         IN  IF selected = All THEN [v1 EXCEPT !.dp = displayFilteredQuotes(qs, selected)]
             ELSE IF \E i \in 1..Len(qs) : NoCategory(qs[i]) THEN [v1 EXCEPT !.threw = TRUE]
             ELSE [v1 EXCEPT !.dp = displayFilteredQuotes(FilterByCategory(qs, selected), selected)]

\* showRandomQuote (lines 723-739) on collection qs; r is the random index
showRandomQuote(qs, v, r) ==
    IF Len(qs) = 0 THEN [v EXCEPT !.dp = [kind |-> "empty"]]
    ELSE LET v1 == IF v.ui.created
                   THEN [v EXCEPT !.ui = SetValue(v.ui, All), !.lf = <<>>]
                   ELSE v
         IN  [v1 EXCEPT !.ss = <<StringifyObj(qs[r])>>, !.dp = displayQuote(qs[r], "")]

\* the choices of Math.floor(Math.random() * qs.length), 1-based: any index
\* of qs (the draw is not read when qs is empty)
RandomIndex(qs) == IF Len(qs) = 0 THEN {1} ELSE 1..Len(qs)

\* the views a call of showRandomQuote can leave, one for each draw
RandomQuoteViews(qs, v) == {showRandomQuote(qs, v, r) : r \in RandomIndex(qs)}

\* the view record written back to the variables
SetView(v) ==
    /\ ui' = v.ui
    /\ lsFilter' = v.lf
    /\ session' = v.ss
    /\ display' = v.dp

\* ------------------------------------------------------- remote source
\* a post of the remote collection: {id, title, userId}
Post(i, title, user) == [id |-> i, title |-> Str(title), userId |-> user]

\* The bodies a successful response can carry, as arrays of posts. Ids are
\* the keys of the remote collection, so one body never repeats an id; the
\* remote may change between two fetches (post 1 has two versions).
Bodies ==
    { <<>>,
      << Post(1, "sunt aut facere", 1) >>,
      << Post(2, "qui est esse", 1), Post(1, "ea molestias", 2) >> }

\* faulty variant: the mapped quote with the prefix of the default ids
MapPostAsDefault(post) ==
    [id |-> "d" \o ToString(post.id),
     text |-> post.title,
     category |-> Str("Server-" \o ToString(post.userId)),
     synced |-> TRUE]

\* faulty variant: the mapped quote without `synced: true`
MapPostPending(post) ==
    [id |-> "server-" \o ToString(post.id),
     text |-> post.title,
     category |-> Str("Server-" \o ToString(post.userId)),
     synced |-> FALSE]

\* lines 583-588: a post mapped to the quote structure
MapPost(post) ==
    [id |-> "server-" \o ToString(post.id),
     text |-> post.title,
     category |-> Str("Server-" \o ToString(post.userId)),
     synced |-> TRUE]

\* serverPosts.map(...) of line 583
MapPosts(posts) == [i \in 1..Len(posts) |-> MapPost(posts[i])]

\* --------------------------------------------------------- sync merge
\* new Map(quotes.map(q => [q.id, q])) (line 608): a key stays where it was
\* first inserted and holds the value inserted last.
MapKeys(qs) == {i \in 1..Len(qs) : \A j \in 1..(i - 1) : qs[j].id # qs[i].id}

\* faulty variant: a map that keeps the value inserted first for a key
MapGetFirst(qs, id) ==
    qs[CHOOSE i \in 1..Len(qs) :
          /\ qs[i].id = id
          /\ \A j \in 1..(i - 1) : qs[j].id # id]

MapGet(qs, id) ==
    qs[CHOOSE i \in 1..Len(qs) :
          /\ qs[i].id = id
          /\ \A j \in (i + 1)..Len(qs) : qs[j].id # id]

\* faulty variant: the forEach of lines 612-623 without its localQuotesMap.delete
RemainingNoDelete(qs, server) ==
    LET firsts == SelectIdx(qs, MapKeys(qs), 1)
    IN  [i \in 1..Len(firsts) |-> MapGet(qs, firsts[i].id)]

\* the entries left in localQuotesMap after the forEach of lines 612-623
Remaining(qs, server) ==
    LET keep == {i \in MapKeys(qs) : qs[i].id \notin Ids(server)}
        firsts == SelectIdx(qs, keep, 1)
    IN  [i \in 1..Len(firsts) |-> MapGet(qs, firsts[i].id)]

\* faulty variant: lines 626-634 pushing only the quotes that were synced already
MarkSyncedDropsPending(qs) == SelectSeq(qs, LAMBDA q : q.synced)

\* faulty variant: lines 626-634 pushing the quotes without line 630
MarkSyncedSkipped(qs) == qs

\* lines 626-634: the remaining local quotes, each marked synced
MarkSynced(qs) == [i \in 1..Len(qs) |-> [qs[i] EXCEPT !.synced = TRUE]]

\* localChangesDetected of lines 626-632
LocalChanges(qs, server) ==
    LET rest == Remaining(qs, server)
    IN  \E i \in 1..Len(rest) : ~rest[i].synced

\* faulty variant: the merge pushing every local quote, without the map lookup
MergeKeepsAll(qs, server) == server \o MarkSynced(qs)

\* mergedQuotes of lines 607-636
Merge(qs, server) == server \o MarkSynced(Remaining(qs, server))

\* -------------------------------------------------------- persistence
\* saveQuotes (lines 542-544): the item written for collection qs
saveQuotes(qs) == <<Stringify(qs)>>

\* faulty variant: the import keeping the flag its element carries
ImportedFlagOfElement(q) == IF "synced" \in DOMAIN q THEN q.synced ELSE FALSE

\* faulty variant: a stored quote without flag loaded as not synced
LoadedFlagPending(q) == IF "synced" \in DOMAIN q THEN q.synced ELSE FALSE

\* line 558: q.synced !== undefined ? q.synced : true
LoadedFlag(q) == IF "synced" \in DOMAIN q THEN q.synced ELSE TRUE
\* line 958: synced: false
ImportedFlag(q) == FALSE

\* `q.id ||` of lines 557 and 957: the element has an id that is truthy
\* (a missing id and the id '' are falsy)
HasId(q) == "id" \in DOMAIN q /\ q.id # ""

RECURSIVE EnsureIds(_, _, _)
\* q => ({...q, id: q.id || generateUniqueId(), synced: <flag>}) over an
\* array, generating ids in array order from count n; the flag is
\* LoadedFlag in loadQuotes (lines 555-559, load = TRUE) and ImportedFlag in
\* importFromJsonFile (lines 955-959, load = FALSE).
EnsureIds(qs, n, load) ==
    IF qs = <<>> THEN <<>>
    ELSE LET q == Head(qs)
             has == HasId(q)
             nq == [k \in DOMAIN q \cup {"id", "synced"} |->
                      IF k = "id" THEN (IF has THEN q.id ELSE generateUniqueId(n))
                      ELSE IF k = "synced"
                           THEN (IF load THEN LoadedFlag(q) ELSE ImportedFlag(q))
                           ELSE q[k]]
         IN  <<nq>> \o EnsureIds(Tail(qs), IF has THEN n ELSE n + 1, load)

\* the number of ids EnsureIds generates
Generated(qs) == Cardinality({i \in 1..Len(qs) : ~HasId(qs[i])})

\* loadQuotes (lines 549-564): the collection it leaves in `quotes`
loadQuotes(item, n) ==
    IF item # <<>> THEN EnsureIds(Parse(item[1]), n, TRUE)
    ELSE defaultQuotes

\* ---------------------------------------------------------------- Init
NoUi == [created |-> FALSE, options |-> {}, value |-> EmptyStr]
Blank0 == [kind |-> "blank"]

Init ==
    /\ page = "unloaded"
    /\ quotes = <<>>
    /\ lsQuotes = <<>>
    /\ lsFilter = <<>>
    /\ session = <<>>
    /\ ui = NoUi
    /\ display = Blank0
    /\ syncStatus = ""
    /\ form = FALSE
    /\ timer = FALSE
    /\ cycles = <<>>
    /\ statusTimers = 0
    /\ idCount = 0
    /\ exported = <<>>
    /\ ticks = 0
    /\ userOps = 0
    /\ hist = [op |-> "none", pre |-> <<>>, threw |-> FALSE]

\* a sync cycle suspended in `await fetchServerQuotes()` (line 605). The
\* cycle holds nothing it has read; for the record, `added` is the quotes
\* that add and import push while it is suspended and `start` the collection
\* qs of the moment it started.
NewCycle(qs) == [added |-> <<>>, start |-> qs]

\* property access that gives undefined for a missing key
Get(q, k) == IF k \in DOMAIN q THEN <<q[k]>> ELSE <<>>

\* line 1010: quotes.some(q => q.text === lastQuote.text && ...)
QuoteExists(qs, last) ==
    \E i \in 1..Len(qs) :
        /\ Get(qs[i], "text") = Get(last, "text")
        /\ Get(qs[i], "category") = Get(last, "category")

\* a non-empty string is truthy
Truthy(item) == item # <<>> /\ item[1] # EmptyStr

\* lines 997-1023: the startup display decision, as the set of views it can
\* leave (showRandomQuote draws a quote)
StartupView(qs, v) ==
    IF Truthy(v.lf) /\ v.ui.created
    THEN LET v1 == filterQuotes(qs, [v EXCEPT !.ui = SetValue(v.ui, v.lf[1])])
         IN  {[v1 EXCEPT !.ss = <<>>]}
    ELSE IF v.ss # <<>>
         THEN LET last == ParseObj(v.ss[1])
              IN  IF QuoteExists(qs, last)
                  THEN {[v EXCEPT !.dp = displayQuote(last, "(from last session)")]}
                  ELSE RandomQuoteViews(qs, v)
         ELSE RandomQuoteViews(qs, v)

\* what the storage areas hold when a handler starts
Before == [store |-> lsQuotes, lf |-> lsFilter, ss |-> session]

\* initializeApp (lines 984-1028), run by DOMContentLoaded
InitializeApp ==
    /\ page = "unloaded"
    /\ page' = "ready"
    /\ LET loaded == loadQuotes(lsQuotes, idCount)
           made == IF lsQuotes # <<>> THEN Generated(Parse(lsQuotes[1])) ELSE 0
           v0 == [View EXCEPT !.ui = [created |-> TRUE, options |-> {}, value |-> EmptyStr]]
           v1 == populateCategories(loaded, v0)
       IN  /\ quotes' = loaded
           /\ idCount' = idCount + made
           /\ lsQuotes' = IF lsQuotes # <<>> THEN lsQuotes ELSE saveQuotes(loaded)
           /\ IF v1.threw
              THEN \* populateCategories raised: the rest of initializeApp is skipped
                   /\ SetView(v1)
                   /\ syncStatus' = "Initializing..."
                   /\ form' = FALSE
                   /\ timer' = FALSE
                   /\ cycles' = <<>>
              ELSE /\ \E v2 \in StartupView(loaded, v1) : SetView(v2)
                   /\ syncStatus' = "Syncing..."
                   /\ form' = TRUE
                   /\ timer' = TRUE
                   /\ cycles' = <<NewCycle(loaded)>>
           /\ hist' = [op |-> "init", pre |-> quotes, threw |-> v1.threw,
                       before |-> Before]
    /\ UNCHANGED <<statusTimers, exported, ticks, userOps>>

\* faulty variant: syncQuotes behind an in-flight guard, so that a tick that
\* finds a cycle awaiting its fetch starts nothing
TickGuarded ==
    /\ timer
    /\ ticks < MaxTicks
    /\ Len(cycles) < MaxInflight
    /\ ticks' = ticks + 1
    /\ syncStatus' = IF cycles = <<>> THEN "Syncing..." ELSE syncStatus
    /\ cycles' = IF cycles = <<>> THEN Append(cycles, NewCycle(quotes)) ELSE cycles
    /\ UNCHANGED <<page, quotes, lsQuotes, lsFilter, session, ui, display, form,
                   timer, statusTimers, idCount, exported, userOps, hist>>

\* a tick of setInterval(syncQuotes, SYNC_INTERVAL) (line 1027): syncQuotes
\* runs up to its first await
Tick ==
    /\ timer
    /\ ticks < MaxTicks
    /\ Len(cycles) < MaxInflight
    /\ ticks' = ticks + 1
    /\ syncStatus' = "Syncing..."
    /\ cycles' = Append(cycles, NewCycle(quotes))
    /\ UNCHANGED <<page, quotes, lsQuotes, lsFilter, session, ui, display, form,
                   timer, statusTimers, idCount, exported, userOps, hist>>

\* the sequence s without its element i
Without(s, i) == SubSeq(s, 1, i - 1) \o SubSeq(s, i + 1, Len(s))

\* lines 640-654 of syncQuotes, after populateCategories: the views it can
\* leave
SyncView(qs, v, changes, n) ==
    IF Truthy(v.lf) /\ v.ui.created /\ v.ui.value # All
    THEN {filterQuotes(qs, [v EXCEPT !.ui = SetValue(v.ui, v.lf[1])])}
    ELSE IF changes \/ n > 0
         THEN {[v EXCEPT !.dp = [kind |-> "syncmsg", local |-> changes, n |-> n]]}
         ELSE RandomQuoteViews(qs, v)

\* faulty variant: saveQuotes called before `quotes = mergedQuotes`
SavedByPersistStale(old, merged) == saveQuotes(old)

\* what the cycle persists (lines 636-637): `quotes = mergedQuotes` comes
\* first, so saveQuotes writes the merged collection, not the one it read
SavedBySync(old, merged) == saveQuotes(merged)

\* the serverQuotes of the immediately preceding handler, if it was a sync
PrevServer == IF hist.op = "sync" THEN <<hist.server>> ELSE <<>>

\* faulty variant: the cycle merging the collection as it was when the
\* cycle started, as if line 608 came before the await of line 605
CollectionAtStart(cycle) == cycle.start

\* line 608: the cycle reads the global `quotes` when it is resumed
CollectionRead(cycle) == quotes

\* syncQuotes from line 607 on, for cycle i, once fetchServerQuotes has
\* returned `server` (fetchOk is FALSE when it returned [] from its catch)
SyncResume(i, server, fetchOk) ==
    LET merged == Merge(CollectionRead(cycles[i]), server)
        changes == LocalChanges(CollectionRead(cycles[i]), server)
        v1 == populateCategories(merged, View)
    IN  /\ quotes' = merged
        /\ lsQuotes' = SavedBySync(quotes, merged)
        /\ cycles' = Without(cycles, i)
        /\ IF v1.threw
           THEN /\ SetView(v1)
                /\ statusTimers' = statusTimers
           ELSE /\ \E v2 \in SyncView(merged, v1, changes, Len(server)) :
                      SetView(v2)
                /\ statusTimers' = statusTimers + 1
        /\ hist' = [op |-> "sync", pre |-> quotes, threw |-> v1.threw,
                    server |-> server, fetchOk |-> fetchOk,
                    added |-> cycles[i].added, prev |-> PrevServer,
                    start |-> cycles[i].start]
        /\ UNCHANGED <<page, form, timer, idCount, exported, ticks, userOps>>

\* fetchServerQuotes returns to cycle i (lines 576-596). Its catch returns
\* [] when fetch rejects, the status is not ok or response.json() rejects;
\* otherwise it returns the mapped posts of the body. Between its two awaits
\* the cycle holds nothing it has read from the page, so they are one step.
FetchReturns(i) ==
    /\ i \in 1..Len(cycles)
    /\ \/ /\ syncStatus' = "Sync Failed!"
          /\ SyncResume(i, <<>>, FALSE)
       \/ /\ syncStatus' = syncStatus
          /\ \E body \in Bodies : SyncResume(i, MapPosts(body), TRUE)

\* the callback of the setTimeout of lines 656-659
StatusTimerFires ==
    /\ statusTimers > 0
    /\ statusTimers' = statusTimers - 1
    /\ syncStatus' = "Last Sync"
    /\ UNCHANGED <<page, quotes, lsQuotes, lsFilter, session, ui, display, form,
                   timer, cycles, idCount, exported, ticks, userOps, hist>>

\* ------------------------------------------------------- user gestures
\* what the user types into newQuoteText and newQuoteCategory
AddInputs ==
    { << <<"Carpe diem">>, <<Blank, "Life", Blank>> >>,
      << <<Blank>>, <<"Life">> >>,
      << <<"Carpe diem">>, <<>> >> }

\* the quotes pushed while cycles are suspended, recorded in each of them
NoteAdded(new) == [i \in 1..Len(cycles) |-> [cycles[i] EXCEPT !.added = @ \o new]]

\* faulty variant: the test of line 752 looking at the text only
ValidInputTextOnly(text, category) == text # EmptyStr

\* line 752: if (text && category)
ValidInput(text, category) == text # EmptyStr /\ category # EmptyStr

\* faulty variant: the new quote created as already synced
MakeQuoteSynced(text, category, n) ==
    [id |-> generateUniqueId(n), text |-> text, category |-> category,
     synced |-> TRUE]

\* lines 754-759: the quote object addQuote creates
MakeQuote(text, category, n) ==
    [id |-> generateUniqueId(n), text |-> text, category |-> category,
     synced |-> FALSE]

\* addQuote (lines 745-777), the click handler of the add button
AddQuote(rawText, rawCategory) ==
    /\ page = "ready"
    /\ form
    /\ userOps < MaxUserOps
    /\ userOps' = userOps + 1
    /\ LET text == Trim(rawText)
           category == Trim(rawCategory)
           newQuote == MakeQuote(text, category, idCount)
           pushed == Append(quotes, newQuote)
           v1 == populateCategories(pushed, View)
       IN  IF ValidInput(text, category)
           THEN /\ quotes' = pushed
                /\ idCount' = idCount + 1
                /\ lsQuotes' = saveQuotes(pushed)
                /\ cycles' = NoteAdded(<<newQuote>>)
                /\ IF v1.threw
                   THEN SetView(v1)
                   ELSE SetView([v1 EXCEPT
                            !.dp = displayQuote(newQuote, "(Unsynced)"),
                            !.ss = <<StringifyObj(newQuote)>>])
                /\ hist' = [op |-> "add", pre |-> quotes, threw |-> v1.threw,
                            valid |-> TRUE, new |-> <<newQuote>>,
                            before |-> Before, raw |-> <<rawText, rawCategory>>]
           ELSE /\ hist' = [op |-> "add", pre |-> quotes, threw |-> FALSE,
                            valid |-> FALSE, new |-> <<>>,
                            before |-> Before, raw |-> <<rawText, rawCategory>>]
                /\ UNCHANGED <<quotes, idCount, lsQuotes, cycles, ui, lsFilter,
                               session, display>>
    /\ UNCHANGED <<page, syncStatus, form, timer, statusTimers, exported, ticks>>

\* a file the user can pick: text that JSON.parse rejects, a JSON value that
\* is no array, or an array of elements
File(parses, isArray, items) == [parses |-> parses, isArray |-> isArray, items |-> items]

Files ==
    { File(FALSE, FALSE, <<>>),
      File(TRUE, FALSE, <<>>),
      File(TRUE, TRUE, << StringifyObj([text |-> Str("Q"), category |-> Str("Cat")]),
                          StringifyObj([id |-> "", text |-> Str("R"), category |-> Str("Cat")]) >>),
      File(TRUE, TRUE, << StringifyObj([id |-> "d1", text |-> Str("Mine"),
                                        category |-> Str("Work"), synced |-> TRUE]) >>),
      File(TRUE, TRUE, << StringifyObj([id |-> "server-1", text |-> Str("Local edit"),
                                        category |-> Str("Cat")]) >>),
      File(TRUE, TRUE, << StringifyObj([id |-> "x", text |-> Str("One"), category |-> Str("Cat")]),
                          StringifyObj([id |-> "x", text |-> Str("Two"), category |-> Str("Cat")]) >>),
      File(TRUE, TRUE, << StringifyObj([text |-> Str("No category")]) >>),
      File(TRUE, TRUE, << NullJson >>) }

\* faulty variant: the import without its Array.isArray test
AcceptedIfParsed(file) ==
    /\ file.parses
    /\ \A i \in 1..Len(file.items) : ~IsNull(ParseObj(file.items[i]))

\* lines 950-959: JSON.parse gives a value, the value is an array, and the
\* map of line 955 raises on none of its elements (q.id of null does)
Accepted(file) ==
    /\ file.parses
    /\ file.isArray
    /\ \A i \in 1..Len(file.items) : ~IsNull(ParseObj(file.items[i]))

\* the files the user can pick now: the fixed ones and the exported file
PickableFiles == Files \cup {File(TRUE, TRUE, exported[i]) : i \in 1..Len(exported)}

\* fileReader.onload of importFromJsonFile (lines 949-977)
ImportFile(file) ==
    /\ page = "ready"
    /\ userOps < MaxUserOps
    /\ userOps' = userOps + 1
    /\ LET items == Parse(file.items)
           accepted == Accepted(file)
           newQuotes == EnsureIds(items, idCount, FALSE)
           pushed == quotes \o newQuotes
           v1 == populateCategories(pushed, View)
           v2 == IF v1.threw THEN v1 ELSE filterQuotes(pushed, v1)
       IN  IF accepted
           THEN /\ quotes' = pushed
                /\ idCount' = idCount + Generated(items)
                /\ lsQuotes' = saveQuotes(pushed)
                /\ cycles' = NoteAdded(newQuotes)
                /\ SetView(v2)
                /\ hist' = [op |-> "import", pre |-> quotes, threw |-> v2.threw,
                            valid |-> TRUE, new |-> newQuotes, file |-> file,
                            before |-> Before]
           ELSE /\ hist' = [op |-> "import", pre |-> quotes, threw |-> FALSE,
                            valid |-> FALSE, new |-> <<>>, file |-> file,
                            before |-> Before]
                /\ UNCHANGED <<quotes, idCount, lsQuotes, cycles, ui, lsFilter,
                               session, display>>
    /\ UNCHANGED <<page, syncStatus, form, timer, statusTimers, exported, ticks>>

\* a click on newQuote: showRandomQuote (line 986)
ShowRandomClick ==
    /\ page = "ready"
    /\ userOps < MaxUserOps
    /\ userOps' = userOps + 1
    /\ \E r \in RandomIndex(quotes) : SetView(showRandomQuote(quotes, View, r))
    /\ hist' = [op |-> "show", pre |-> quotes, threw |-> FALSE,
                before |-> Before, ui |-> ui]
    /\ UNCHANGED <<page, quotes, lsQuotes, syncStatus, form, timer, cycles,
                   statusTimers, idCount, exported, ticks>>

\* the user picks option c of the select: its change handler is
\* filterQuotes (line 887)
FilterChange(c) ==
    /\ page = "ready"
    /\ ui.created
    /\ c \in ui.options
    /\ c # ui.value
    /\ userOps < MaxUserOps
    /\ userOps' = userOps + 1
    /\ LET v1 == filterQuotes(quotes, [View EXCEPT !.ui = SetValue(ui, c)])
       IN  /\ SetView(v1)
           /\ hist' = [op |-> "filter", pre |-> quotes, threw |-> v1.threw]
    /\ UNCHANGED <<page, quotes, lsQuotes, syncStatus, form, timer, cycles,
                   statusTimers, idCount, exported, ticks>>

\* exportToJsonFile (lines 917-936), the click handler of exportBtn
Export ==
    /\ page = "ready"
    /\ userOps < MaxUserOps
    /\ userOps' = userOps + 1
    /\ exported' = IF Len(quotes) = 0 THEN exported ELSE <<Stringify(quotes)>>
    /\ hist' = [op |-> "export", pre |-> quotes, threw |-> FALSE]
    /\ UNCHANGED <<page, quotes, lsQuotes, lsFilter, session, ui, display,
                   syncStatus, form, timer, cycles, statusTimers, idCount, ticks>>

\* the user reloads the page (the session storage is kept) or opens it in a
\* new tab (it starts empty): the script's globals are as at line 513 again
Reload(keepSession) ==
    /\ page = "ready"
    /\ userOps < MaxUserOps
    /\ userOps' = userOps + 1
    /\ page' = "unloaded"
    /\ quotes' = <<>>
    /\ ui' = NoUi
    /\ display' = Blank0
    /\ syncStatus' = ""
    /\ form' = FALSE
    /\ timer' = FALSE
    /\ cycles' = <<>>
    /\ statusTimers' = 0
    /\ session' = IF keepSession THEN session ELSE <<>>
    /\ hist' = [op |-> "none", pre |-> <<>>, threw |-> FALSE]
    /\ UNCHANGED <<lsQuotes, lsFilter, idCount, exported, ticks>>

\* ---------------------------------------------------------------- Next
Next ==
    \/ InitializeApp
    \/ Tick
    \/ \E i \in 1..MaxInflight : FetchReturns(i)
    \/ StatusTimerFires
    \/ \E in \in AddInputs : AddQuote(in[1], in[2])
    \/ \E file \in PickableFiles : ImportFile(file)
    \/ ShowRandomClick
    \/ \E c \in ui.options : FilterChange(c)
    \/ Export
    \/ \E keep \in BOOLEAN : Reload(keep)

Spec == Init /\ [][Next]_vars

\* The status line's timer callback writes syncStatus only, which no other
\* handler reads: the claims about the collection are checked on SyncSpec,
\* the page without that callback.
SyncNext ==
    \/ InitializeApp
    \/ Tick
    \/ \E i \in 1..MaxInflight : FetchReturns(i)
    \/ \E in \in AddInputs : AddQuote(in[1], in[2])
    \/ \E file \in PickableFiles : ImportFile(file)
    \/ ShowRandomClick
    \/ \E c \in ui.options : FilterChange(c)
    \/ Export
    \/ \E keep \in BOOLEAN : Reload(keep)

SyncSpec == Init /\ [][SyncNext]_vars

\* ------------------------------------- the page opened on an older store
\* The item 'quotes' may have been written by an earlier run of the page or
\* by an earlier revision of the script, which stored quotes as
\* {text, category} without id and flag; this revision stores a quote
\* without category when one was imported. The shapes of a stored quote:
StoredShapes ==
    { [text |-> Str("Old"), category |-> Str("Legacy")],
      [id |-> "a3", text |-> Str("No category"), synced |-> FALSE],
      [id |-> "a1", text |-> Str("Old"), category |-> Str("Legacy")],
      [text |-> Str("Old"), category |-> Str("Legacy"), synced |-> FALSE],
      [id |-> "a2", text |-> Str("Kept"), category |-> Str("Legacy"), synced |-> FALSE],
      [id |-> "", text |-> Str("Old"), category |-> Str("Work"), synced |-> TRUE] }

\* stored collections have at most this many quotes
MaxStored == 2

\* the items the store can hold when the page opens: nothing, or the JSON
\* text of a collection of up to MaxStored quotes
StoredItems ==
    {<<>>} \cup
    UNION {{<<Stringify(qs)>> : qs \in [1..n -> StoredShapes]} : n \in 0..MaxStored}

LoadInit ==
    /\ page = "unloaded"
    /\ quotes = <<>>
    /\ lsQuotes \in StoredItems
    /\ lsFilter = <<>>
    /\ session = <<>>
    /\ ui = NoUi
    /\ display = Blank0
    /\ syncStatus = ""
    /\ form = FALSE
    /\ timer = FALSE
    /\ cycles = <<>>
    /\ statusTimers = 0
    /\ idCount = 0
    /\ exported = <<>>
    /\ ticks = 0
    /\ userOps = 0
    /\ hist = [op |-> "none", pre |-> <<>>, threw |-> FALSE]

\* the page is loaded and the user looks at quotes, picks filters and
\* reloads; no cycle completes
LoadNext ==
    \/ InitializeApp
    \/ ShowRandomClick
    \/ \E c \in ui.options : FilterChange(c)
    \/ \E keep \in BOOLEAN : Reload(keep)

LoadSpec == LoadInit /\ [][LoadNext]_vars

\* ------------------------------------------------- the page left running
\* For what happens in the long run the timer keeps ticking (its ticks are
\* not counted) and the remote source is static: every successful fetch
\* returns the same body.
StaticBody == << Post(2, "qui est esse", 1), Post(1, "ea molestias", 2) >>
StaticRemote == MapPosts(StaticBody)

\* status callbacks of line 656 pending when a tick starts a cycle are
\* fewer than this
MaxTimers == 2

\* a tick of the interval timer (line 1027): syncQuotes runs up to its first
\* await, whatever cycles and status callbacks are pending (the two bounds
\* keep the pending work finite)
TickAgain ==
    /\ timer
    /\ statusTimers < MaxTimers
    /\ Len(cycles) < MaxInflight
    /\ syncStatus' = "Syncing..."
    /\ cycles' = Append(cycles, NewCycle(quotes))
    /\ UNCHANGED <<page, quotes, lsQuotes, lsFilter, session, ui, display, form,
                   timer, statusTimers, idCount, exported, ticks, userOps, hist>>

\* fetchServerQuotes returns [] from its catch to cycle i (lines 591-596)
FetchFails(i) ==
    /\ i \in 1..Len(cycles)
    /\ syncStatus' = "Sync Failed!"
    /\ SyncResume(i, <<>>, FALSE)

\* fetchServerQuotes returns the mapped posts of the static remote source to
\* cycle i (lines 576-590)
FetchSucceeds(i) ==
    /\ i \in 1..Len(cycles)
    /\ syncStatus' = syncStatus
    /\ SyncResume(i, StaticRemote, TRUE)

\* the gestures of the user while the page is left running are fewer than
\* this (the ticks go on without end, so one gesture meets any number of
\* cycles)
MaxLiveOps == 1

\* a gesture of the user
LiveGesture ==
    \/ \E in \in AddInputs : AddQuote(in[1], in[2])
    \/ \E file \in PickableFiles : ImportFile(file)
    \/ ShowRandomClick
    \/ \E c \in ui.options : FilterChange(c)
    \/ Export
    \/ \E keep \in BOOLEAN : Reload(keep)

LiveNext ==
    \/ InitializeApp
    \/ TickAgain
    \/ \E i \in 1..MaxInflight : FetchFails(i)
    \/ \E i \in 1..MaxInflight : FetchSucceeds(i)
    \/ StatusTimerFires
    \/ userOps < MaxLiveOps /\ LiveGesture

\* WF_vars(InitializeApp), with its enabling condition written out: the
\* browser fires DOMContentLoaded on a page that is not loaded yet.
FairLoad == []<>(page # "unloaded") \/ []<><<InitializeApp>>_vars

\* SF_vars(FetchSucceeds(i)), with its enabling condition written out: a
\* cycle's fetch may fail any number of times, but fetches succeed in the
\* end (strong, as every failure ends the cycle that waited for it).
FairFetch(i) == <>[](Len(cycles) < i) \/ []<><<FetchSucceeds(i)>>_vars

\* The browser runs the interval timer and the timeout callbacks when they
\* are due (weak fairness).
LiveSpec ==
    /\ Init
    /\ [][LiveNext]_vars
    /\ WF_vars(TickAgain)
    /\ WF_vars(StatusTimerFires)
    /\ FairLoad
    /\ \A i \in 1..MaxInflight : FairFetch(i)

\* ============================================================== claims
\* hist describes the handler that ran last; between two handlers nothing
\* runs, so every state is a state in which no handler is running.
SyncDone == hist.op = "sync"
FetchFailed == SyncDone /\ ~hist.fetchOk

Contents(qs) == [i \in 1..Len(qs) |-> Content(qs[i])]
Present(q, qs) == \E j \in 1..Len(qs) : Content(qs[j]) = Content(q)
Stored == IF lsQuotes = <<>> THEN <<>> ELSE Parse(lsQuotes[1])
WithId(qs, id) == {i \in 1..Len(qs) : qs[i].id = id}

RECURSIVE IsSubseq(_, _)
\* s is a subsequence of t: its elements, in the same relative order
IsSubseq(s, t) ==
    IF s = <<>> THEN TRUE
    ELSE IF t = <<>> THEN FALSE
    ELSE IF Head(s) = Head(t) THEN IsSubseq(Tail(s), Tail(t))
    ELSE IsSubseq(s, Tail(t))

\* C1: remote precedence. After a sync cycle whose fetch returned a record
\* with an id that a local quote carried, the collection holds for that id
\* exactly one quote, the remote record (its text, its category, synced).
RemotePrecedence ==
    SyncDone =>
        \A k \in 1..Len(hist.server) :
            LET X == hist.server[k].id
            IN  WithId(hist.pre, X) # {} =>
                    /\ Cardinality(WithId(quotes, X)) = 1
                    /\ \A i \in WithId(quotes, X) :
                           /\ quotes[i].text = hist.server[k].text
                           /\ quotes[i].category = hist.server[k].category
                           /\ quotes[i].synced = TRUE

\* a cycle has replaced an unsynced local quote by the remote record of its
\* id, which has another text
RemotePrecedenceWitness ==
    /\ SyncDone
    /\ \E k \in 1..Len(hist.server) : \E i \in 1..Len(hist.pre) :
           /\ hist.pre[i].id = hist.server[k].id
           /\ ~hist.pre[i].synced
           /\ hist.pre[i].text # hist.server[k].text

\* C2 (as claimed): after a sync cycle every local quote whose id the fetch
\* did not return is still in the collection with its id, text and category.
LocalQuotesSurvive ==
    SyncDone =>
        \A i \in 1..Len(hist.pre) :
            hist.pre[i].id \notin Ids(hist.server) => Present(hist.pre[i], quotes)

\* C3 (as claimed): no two quotes of the collection share an id.
IdsUnique ==
    \A i, j \in 1..Len(quotes) : i # j => quotes[i].id # quotes[j].id

\* C4 (as claimed): after a cycle whose fetch failed, the collection and the
\* persisted collection hold the quotes they held before, in the same order,
\* with the same id, text and category.
FetchFailureKeepsCollection ==
    FetchFailed =>
        /\ Contents(quotes) = Contents(hist.pre)
        /\ Contents(Stored) = Contents(hist.pre)

\* C5 (as claimed): in a cycle in which the remote is unreachable every
\* unsynced quote keeps synced = false.
UnreachableKeepsPending ==
    FetchFailed =>
        \A i \in 1..Len(hist.pre) :
            ~hist.pre[i].synced =>
                \E j \in 1..Len(quotes) :
                    Content(quotes[j]) = Content(hist.pre[i]) /\ ~quotes[j].synced

\* C6: idempotence. A sync cycle that follows a sync cycle directly, with
\* the same fetch result, leaves the collection as the first one left it.
SyncIdempotent ==
    (SyncDone /\ hist.prev = <<hist.server>>) => quotes = hist.pre

\* two cycles in a row merged the same non-empty fetch result into a
\* collection that also holds local quotes
SyncIdempotentWitness ==
    /\ SyncDone
    /\ hist.prev = <<hist.server>>
    /\ Len(hist.server) > 0
    /\ Len(quotes) > Len(hist.server)

\* C7 (as claimed): a sync cycle leaves the fetched records first, in fetch
\* order, and then surviving local quotes in their original relative order.
RemoteFirstThenLocalInOrder ==
    SyncDone =>
        LET n == Len(hist.server)
        IN  /\ Len(quotes) >= n
            /\ SubSeq(quotes, 1, n) = hist.server
            /\ IsSubseq(Contents(SubSeq(quotes, n + 1, Len(quotes))),
                        Contents(hist.pre))

\* C8 (as claimed): every quote that add or import pushed while a cycle was
\* suspended is in the collection and in the persisted collection after the
\* cycle completes.
NoLostUpdate ==
    SyncDone =>
        \A a \in 1..Len(hist.added) :
            /\ Present(hist.added[a], quotes)
            /\ Present(hist.added[a], Stored)

\* the quote is, when the fetch resolves, the last quote of the collection
\* with its id
LastOfItsId(q, qs) ==
    \E j \in 1..Len(qs) :
        /\ Content(qs[j]) = Content(q)
        /\ \A k \in (j + 1)..Len(qs) : qs[k].id # q.id

\* C8 (amended): every quote that add or import pushed while a cycle was
\* suspended is in the collection and in the persisted collection after the
\* cycle completes, unless the cycle's fetch returned a record with its id
\* or it is, when the fetch resolves, no longer the last quote with its id.
NoLostUpdateUnlessSuperseded ==
    SyncDone =>
        \A a \in 1..Len(hist.added) :
            (/\ hist.added[a].id \notin Ids(hist.server)
             /\ LastOfItsId(hist.added[a], hist.pre)) =>
                /\ Present(hist.added[a], quotes)
                /\ Present(hist.added[a], Stored)

\* a cycle has completed after addQuote pushed a quote while it was
\* suspended, and the fetch returned records
NoLostUpdateWitness ==
    /\ SyncDone
    /\ Len(hist.server) > 0
    /\ \E a \in 1..Len(hist.added) :
           /\ hist.added[a].id = generateUniqueId(0)
           /\ hist.added[a].text = Str("Carpe diem")
           /\ Present(hist.added[a], quotes)

\* C9: after an add, an import or a sync merge the item stored under
\* 'quotes' is the serialized in-memory collection.
PersistedAfterMutation ==
    hist.op \in {"add", "import", "sync"} =>
        /\ lsQuotes = <<Stringify(quotes)>>
        /\ Stored = quotes

\* a cycle has merged fetched records into a collection that held an
\* unsynced quote, and the collection differs from the one it read
PersistedAfterMutationWitness ==
    /\ SyncDone
    /\ Len(hist.server) > 0
    /\ \E i \in 1..Len(hist.pre) : ~hist.pre[i].synced
    /\ quotes # hist.pre

\* C10 (as claimed): a quote present before an operation is present after
\* it, unless the operation is a sync cycle whose fetch returned its id.
OnlyRemoteSupersedes ==
    \A i \in 1..Len(hist.pre) :
        (hist.op # "sync" \/ hist.pre[i].id \notin Ids(hist.server)) =>
            Present(hist.pre[i], quotes)

\* the handlers that are no sync cycle and no page load
LocalOps == {"add", "import", "show", "filter", "export"}

\* C11: addQuote puts its new quote last in the collection with synced =
\* false; an add, an import, a filter change, a display or an export leaves
\* every quote that was there with the flag it had, and a page load gives
\* every quote the flag stored for it: only a sync cycle turns a flag true.
UnsyncedUntilSync ==
    /\ (hist.op = "add" /\ hist.valid) =>
           /\ Len(quotes) = Len(hist.pre) + 1
           /\ Content(quotes[Len(quotes)]) = Content(hist.new[1])
           /\ quotes[Len(quotes)].synced = FALSE
    /\ hist.op \in LocalOps =>
           /\ Len(quotes) >= Len(hist.pre)
           /\ \A i \in 1..Len(hist.pre) :
                  /\ Content(quotes[i]) = Content(hist.pre[i])
                  /\ quotes[i].synced = hist.pre[i].synced
    /\ hist.op = "init" =>
           /\ Len(quotes) = Len(Stored)
           /\ \A i \in 1..Len(quotes) :
                  ("synced" \in DOMAIN Stored[i] /\ ~Stored[i].synced) =>
                      ~quotes[i].synced

\* the quote that addQuote created is still unsynced after a later import
\* has appended quotes behind it
UnsyncedUntilSyncWitness ==
    /\ hist.op = "import"
    /\ hist.valid
    /\ Len(quotes) > Len(hist.pre)
    /\ \E i \in 1..Len(hist.pre) :
           /\ hist.pre[i].id = generateUniqueId(0)
           /\ hist.pre[i].text = Str("Carpe diem")
           /\ ~quotes[i].synced

\* C12: after a sync cycle every fetched record is in the collection as a
\* quote with synced = true, at the place of its record in the fetch result,
\* whether its id is new to the collection or was the id of a local quote;
\* no quote with that id is left with synced = false.
RemoteQuotesSynced ==
    SyncDone =>
        \A k \in 1..Len(hist.server) :
            /\ Len(quotes) >= k
            /\ quotes[k].id = hist.server[k].id
            /\ quotes[k].text = hist.server[k].text
            /\ quotes[k].synced = TRUE
            /\ \A j \in WithId(quotes, hist.server[k].id) : quotes[j].synced

\* one cycle has brought in a record whose id is new to the collection and a
\* record that replaces an unsynced local quote with its id
RemoteQuotesSyncedWitness ==
    /\ SyncDone
    /\ hist.fetchOk
    /\ \E k \in 1..Len(hist.server) : WithId(hist.pre, hist.server[k].id) = {}
    /\ \E k \in 1..Len(hist.server) :
           \E i \in WithId(hist.pre, hist.server[k].id) : ~hist.pre[i].synced

\* the elements of the file of the last import
Imported == Parse(hist.file.items)

\* C13: an import that accepts its list leaves the quotes that were there as
\* they were and appends one quote per element, in list order, with the
\* element's text and category, synced = false, and a non-empty id: the
\* element's own id when it has one, else an id that no quote before it has.
ImportAppends ==
    (hist.op = "import" /\ hist.valid) =>
        LET n == Len(hist.pre)
        IN  /\ Len(quotes) = n + Len(Imported)
            /\ SubSeq(quotes, 1, n) = hist.pre
            /\ \A j \in 1..Len(Imported) :
                   LET q == quotes[n + j]
                       e == Imported[j]
                   IN  /\ q.synced = FALSE
                       /\ q.id # ""
                       /\ HasId(e) => q.id = e.id
                       /\ ~HasId(e) => \A i \in 1..(n + j - 1) : quotes[i].id # q.id
                       /\ \A k \in DOMAIN e \ {"id", "synced"} :
                              k \in DOMAIN q /\ q[k] = e[k]

\* an import after an add has appended two quotes, for an element without id
\* and an element with the id '', behind an unsynced quote
ImportAppendsWitness ==
    /\ hist.op = "import"
    /\ hist.valid
    /\ Len(Imported) = 2
    /\ \A j \in 1..2 : ~HasId(Imported[j])
    /\ \E i \in 1..Len(hist.pre) : ~hist.pre[i].synced
    /\ quotes[Len(quotes)].id = generateUniqueId(2)

\* an import has appended a quote for an element that said synced: true
ImportAppendsFlagWitness ==
    /\ hist.op = "import"
    /\ hist.valid
    /\ \E j \in 1..Len(Imported) :
           /\ "synced" \in DOMAIN Imported[j]
           /\ Imported[j].synced
           /\ ~quotes[Len(hist.pre) + j].synced

\* C14: after an import of a file that JSON.parse rejects or whose value is
\* no array, the collection, the item stored under 'quotes' and the item
\* stored under 'lastFilter' are what they were before it.
MalformedImportChangesNothing ==
    (hist.op = "import" /\ (~hist.file.parses \/ ~hist.file.isArray)) =>
        /\ quotes = hist.pre
        /\ lsQuotes = hist.before.store
        /\ lsFilter = hist.before.lf

\* the import of a value that is no array has run on a page that has a
\* stored filter
MalformedImportWitness ==
    /\ hist.op = "import"
    /\ hist.file.parses
    /\ ~hist.file.isArray
    /\ lsFilter # <<>>
    /\ Len(quotes) > 0

\* the import of a text that JSON.parse rejects has run
UnparsableImportWitness ==
    /\ hist.op = "import"
    /\ ~hist.file.parses
    /\ Len(quotes) > 0

\* C15: after an addQuote whose text or category is empty once trimmed, the
\* collection, the item stored under 'quotes' and the session item are what
\* they were before it, and no quote has been added.
InvalidAddChangesNothing ==
    (hist.op = "add" /\ (Trim(hist.raw[1]) = EmptyStr \/ Trim(hist.raw[2]) = EmptyStr)) =>
        /\ quotes = hist.pre
        /\ lsQuotes = hist.before.store
        /\ session = hist.before.ss

\* addQuote has run with a text of blanks only on a page whose session item
\* is set
InvalidAddWitness ==
    /\ hist.op = "add"
    /\ hist.raw[1] # EmptyStr
    /\ Trim(hist.raw[1]) = EmptyStr
    /\ session # <<>>
    /\ Len(quotes) > 0

\* addQuote has run with a text and an empty category
EmptyCategoryAddWitness ==
    /\ hist.op = "add"
    /\ Trim(hist.raw[1]) # EmptyStr
    /\ hist.raw[2] = EmptyStr

\* C16 (as claimed): whatever the fetch did (a body, a status that is not
\* ok, a rejection), the cycle runs syncQuotes to its end without raising,
\* and the interval timer is still set, so that later ticks start cycles.
SyncNeverRaises ==
    SyncDone =>
        /\ ~hist.threw
        /\ timer

\* C17 (as claimed): the status reported for a cycle tells whether its fetch
\* failed. While the cycle that completed last is one whose fetch failed and
\* no cycle is running, the status line reads 'Sync Failed!'; while it is
\* one whose fetch succeeded, the status line does not read 'Sync Failed!'.
FailureStatusReported ==
    (SyncDone /\ cycles = <<>>) =>
        (syncStatus = "Sync Failed!") = ~hist.fetchOk

\* C18 (as claimed): when initializeApp has run, the stored collection is
\* loaded and one sync cycle has been started; and as long as the page is
\* loaded the interval timer is set, so that every tick starts a further
\* cycle.
StartupAndTicksStartCycles ==
    /\ hist.op = "init" =>
           /\ quotes = loadQuotes(lsQuotes, idCount)
           /\ Len(cycles) = 1
    /\ page = "ready" => timer

\* a cycle has lost no local quote whose id the remote source does not know
NoLocalLostOnTheWay ==
    SyncDone =>
        \A i \in 1..Len(hist.pre) :
            hist.pre[i].id \notin Ids(StaticRemote) =>
                \E j \in 1..Len(quotes) :
                    /\ quotes[j].id = hist.pre[i].id
                    /\ quotes[j].text = hist.pre[i].text

\* the collection holds every record of the remote source and every quote
\* of it is synced
Consistent ==
    /\ page = "ready"
    /\ \A k \in 1..Len(StaticRemote) : Present(StaticRemote[k], quotes)
    /\ \A i \in 1..Len(quotes) : quotes[i].synced

\* from some moment on the collection is consistent with the remote source
EventuallyAlwaysConsistent == <>[]Consistent

\* C19 (as claimed): with a static remote source, a timer that keeps
\* ticking and fetches that succeed in the end, from some moment on the
\* collection holds every remote record and only synced quotes, and no cycle
\* loses a local quote whose id the remote source does not know.
EventualConsistency ==
    /\ <>[]Consistent
    /\ []NoLocalLostOnTheWay

\* the ids of the default quotes and the ids generateUniqueId has produced
LocalIds == Ids(defaultQuotes) \cup {generateUniqueId(n) : n \in 0..(idCount - 1)}

\* the quote has the id, text and category that line 583 gives to a post of
\* some body of the remote source
FromRemote(q) ==
    \E body \in Bodies : \E p \in 1..Len(body) :
        /\ q.id = "server-" \o ToString(body[p].id)
        /\ q.text = body[p].title
        /\ q.category = Str("Server-" \o ToString(body[p].userId))

\* C20: every quote a cycle has fetched has the id 'server-' followed by
\* its record's id, which is no default id and no id that generateUniqueId
\* has produced; and for every quote with a default or generated id that
\* the cycle read, the collection still holds a local quote with that id,
\* not a fetched record.
RemoteIdsApart ==
    SyncDone =>
        /\ \A k \in 1..Len(hist.server) :
               /\ FromRemote(hist.server[k])
               /\ hist.server[k].id \notin LocalIds
        /\ \A i \in 1..Len(hist.pre) :
               hist.pre[i].id \in LocalIds =>
                   \E j \in 1..Len(quotes) : \E h \in 1..Len(hist.pre) :
                       /\ quotes[j].id = hist.pre[i].id
                       /\ Content(quotes[j]) = Content(hist.pre[h])

\* a cycle has merged fetched records into a collection that holds the
\* default quotes and a quote created by addQuote, and both are still there
RemoteIdsApartWitness ==
    /\ SyncDone
    /\ hist.fetchOk
    /\ Len(hist.server) > 0
    /\ \E i \in 1..Len(hist.pre) :
           /\ hist.pre[i].id = generateUniqueId(0)
           /\ hist.pre[i].text = Str("Carpe diem")
           /\ Present(hist.pre[i], quotes)
    /\ Present(defaultQuotes[1], quotes)

\* C21: there is no in-flight guard. Every tick of the interval timer
\* starts a cycle, which waits for its own fetch next to the cycles whose
\* fetch is still unresolved, and shows 'Syncing...'.
TickStartsCycle ==
    [][ticks' # ticks =>
           /\ cycles' = Append(cycles, NewCycle(quotes))
           /\ syncStatus' = "Syncing..."]_vars

\* a tick has started a cycle while the fetch of the cycle started at
\* startup is unresolved: two cycles await their fetches
OverlapWitness ==
    /\ page = "ready"
    /\ ticks > 0
    /\ Len(cycles) = 2

\* a category filter is active: the select shows a category, not 'all'
FilterActive == ui.created /\ ui.value # All /\ ui.value # EmptyStr

\* C22 (as claimed): when a handler has made a category filter active (the
\* user picked a category, or startup restored the stored one), the session
\* store holds no last-displayed quote.
FilterClearsSession ==
    (hist.op \in {"filter", "init"} /\ FilterActive) => session = <<>>

\* the collection the store held when the page was loaded
StoredBefore == Parse(hist.before.store[1])

\* C23: after initializeApp has loaded a stored collection, the quotes are
\* the stored ones in order, each with its text and category, with its own
\* id when that is not empty and its own flag when it has one, and else with
\* an id no other loaded quote has and the flag true; every id is non-empty
\* and every flag a boolean. With nothing stored the collection is the four
\* default quotes, all synced, and it is the stored collection.
LoadKeepsOrCompletes ==
    hist.op = "init" =>
        IF hist.before.store # <<>>
        THEN /\ Len(quotes) = Len(StoredBefore)
             /\ lsQuotes = hist.before.store
             /\ \A i \in 1..Len(quotes) :
                    LET q == quotes[i]
                        e == StoredBefore[i]
                    IN  /\ \A k \in DOMAIN e \ {"id", "synced"} :
                               k \in DOMAIN q /\ q[k] = e[k]
                        /\ q.id # ""
                        /\ q.synced \in BOOLEAN
                        /\ HasId(e) => q.id = e.id
                        /\ ~HasId(e) => \A j \in 1..Len(quotes) : j # i => quotes[j].id # q.id
                        /\ q.synced = IF "synced" \in DOMAIN e THEN e.synced ELSE TRUE
        ELSE /\ quotes = defaultQuotes
             /\ Len(quotes) = 4
             /\ \A i \in 1..Len(quotes) : quotes[i].synced
             /\ lsQuotes = saveQuotes(defaultQuotes)

\* the page has loaded a stored collection of two quotes, one without id
\* and flag and one with both
LoadKeepsOrCompletesWitness ==
    /\ hist.op = "init"
    /\ hist.before.store # <<>>
    /\ Len(quotes) = 2
    /\ \E i \in 1..2 : DOMAIN StoredBefore[i] = {"text", "category"}
    /\ \E i \in 1..2 : {"id", "synced"} \subseteq DOMAIN StoredBefore[i] /\ HasId(StoredBefore[i])

\* the page has loaded with nothing stored
LoadDefaultsWitness ==
    /\ hist.op = "init"
    /\ hist.before.store = <<>>
    /\ Len(quotes) = 4

\* C24 (as claimed): a click on the random-quote button never changes the
\* collection or the stored collection. On a non-empty collection it leaves
\* the filter on 'all', no stored lastFilter, and the displayed quote, a
\* quote of the collection, as the session's lastViewedQuote; on an empty
\* collection it leaves the filter and both stores as they were.
ShowRandomEffects ==
    hist.op = "show" =>
        /\ quotes = hist.pre
        /\ lsQuotes = hist.before.store
        /\ IF Len(quotes) > 0
           THEN /\ ui.value = All
                /\ lsFilter = <<>>
                /\ \E i \in 1..Len(quotes) :
                       /\ session = <<StringifyObj(quotes[i])>>
                       /\ display = displayQuote(quotes[i], "")
           ELSE /\ ui = hist.ui
                /\ lsFilter = hist.before.lf
                /\ session = hist.before.ss

\* C25: after a sync cycle, whatever its fetch did, every quote of the
\* collection and of the stored collection has synced = true.
AllSyncedAfterCycle ==
    SyncDone =>
        /\ \A i \in 1..Len(quotes) : quotes[i].synced = TRUE
        /\ \A i \in 1..Len(Stored) : Stored[i].synced = TRUE

\* a cycle whose fetch failed has completed on a collection that held an
\* unsynced quote, which is still there
AllSyncedAfterFailureWitness ==
    /\ FetchFailed
    /\ \E i \in 1..Len(hist.pre) :
           /\ ~hist.pre[i].synced
           /\ Present(hist.pre[i], quotes)

\* a cycle whose fetch returned an empty list has completed on a collection
\* that held an unsynced quote
AllSyncedAfterEmptyWitness ==
    /\ SyncDone
    /\ hist.fetchOk
    /\ hist.server = <<>>
    /\ \E i \in 1..Len(hist.pre) : ~hist.pre[i].synced

\* C26: a cycle leaves, in memory and in the store, the collection that a
\* cycle run from start to end at the moment its fetch resolved would leave:
\* the merge of the collection of that moment, with everything that cycles,
\* adds and imports have done to it while it waited, and its fetch result.
\* So any interleaving leaves what the cycles leave when run one after
\* another in the order their fetches resolved.
OverlapIsSerial ==
    SyncDone =>
        /\ quotes = Merge(hist.pre, hist.server)
        /\ Stored = Merge(hist.pre, hist.server)

\* a cycle has completed that waited while another cycle merged fetched
\* records and while a quote was added: the collection it merged holds
\* records and a quote that were not there when it started
OverlapIsSerialWitness ==
    /\ SyncDone
    /\ Len(hist.server) > 0
    /\ hist.added # <<>>
    /\ hist.prev # <<>>
    /\ Len(hist.prev[1]) > 0
    /\ \A k \in 1..Len(hist.prev[1]) :
           /\ hist.prev[1][k].id \notin Ids(hist.start)
           /\ hist.prev[1][k].id \in Ids(hist.pre)

\* the first and the last place of id in qs, and the one place of id in qs
FirstOf(qs, id) == CHOOSE i \in WithId(qs, id) : \A j \in WithId(qs, id) : i <= j
LastOf(qs, id) == CHOOSE i \in WithId(qs, id) : \A j \in WithId(qs, id) : j <= i
PlaceOf(qs, id) == CHOOSE i \in WithId(qs, id) : TRUE

\* the ids of the quotes a cycle read that its fetch did not return
SurvivingIds == Ids(hist.pre) \ Ids(hist.server)

\* C27: after a sync cycle the collection holds, for every id of a local
\* quote that the fetch did not return, exactly one quote: it has the text
\* and category of the last quote with that id that the cycle read, and the
\* surviving quotes stand behind the fetched ones in the order in which
\* their ids first stood in the collection, so their ids differ pairwise.
DuplicatesCollapse ==
    SyncDone =>
        /\ \A X \in SurvivingIds :
               /\ Cardinality(WithId(quotes, X)) = 1
               /\ Content(quotes[PlaceOf(quotes, X)]) =
                      Content(hist.pre[LastOf(hist.pre, X)])
               /\ PlaceOf(quotes, X) > Len(hist.server)
        /\ \A X, Y \in SurvivingIds :
               FirstOf(hist.pre, X) < FirstOf(hist.pre, Y) =>
                   PlaceOf(quotes, X) < PlaceOf(quotes, Y)
        /\ Len(quotes) = Len(hist.server) + Cardinality(SurvivingIds)

\* a cycle has read a collection with two quotes of one id that the fetch
\* did not return, of different texts, with a quote of another id between
DuplicatesCollapseWitness ==
    /\ SyncDone
    /\ \E X, Y \in SurvivingIds :
           /\ Cardinality(WithId(hist.pre, X)) >= 2
           /\ hist.pre[FirstOf(hist.pre, X)].text # hist.pre[LastOf(hist.pre, X)].text
           /\ FirstOf(hist.pre, X) < FirstOf(hist.pre, Y)
           /\ FirstOf(hist.pre, Y) < LastOf(hist.pre, X)

\* the page has run initializeApp and no handler has completed since
StartupDone == hist.op = "init"

\* what the startup shows as a random quote: a quote of the collection,
\* which becomes the session's lastViewedQuote, or the notice of an empty
\* collection
RandomShown ==
    IF Len(quotes) = 0 THEN display = [kind |-> "empty"]
    ELSE \E i \in 1..Len(quotes) :
             /\ display = displayQuote(quotes[i], "")
             /\ session = <<StringifyObj(quotes[i])>>

\* C28 (as claimed): at startup, if a lastFilter entry is stored the select
\* is set to it, the list of the quotes of that category (all quotes for
\* 'all') is shown and the session's lastViewedQuote is removed; otherwise
\* the session's lastViewedQuote is shown, marked as from the last session,
\* exactly when a quote of the same text and category is in the loaded
\* collection, and a random quote is shown in every other case.
StartupDisplay ==
    StartupDone =>
        IF hist.before.lf # <<>>
        THEN /\ ui.value = hist.before.lf[1]
             /\ display.kind \in {"list", "nolist"}
             /\ display.filter = hist.before.lf[1]
             /\ session = <<>>
        ELSE IF /\ hist.before.ss # <<>>
                /\ QuoteExists(quotes, ParseObj(hist.before.ss[1]))
             THEN display = displayQuote(ParseObj(hist.before.ss[1]),
                                         "(from last session)")
             ELSE RandomShown

============================================================================
